---- MODULE Spec2Model ----
(***************************************************************************)
(* Model of src/src/connection.ts (deno_mysql): the Connection state       *)
(* machine, its socket, its per-read timeout timers and the asynchronous   *)
(* operations connect(), execute(), query() and the synchronous close().   *)
(*                                                                         *)
(* An action is one run-to-completion segment of the JavaScript code: from *)
(* the completion of the awaited I/O to the next await (or to the return   *)
(* or throw of the public operation).  The environment (TCP peer, server,  *)
(* clock) chooses the outcome of every awaited I/O.                        *)
(***************************************************************************)
EXTENDS Integers, Sequences, FiniteSets, TLC

\* ------------------------------------------------------------------ bounds
\* Public calls (connect/execute/query/close) a behaviour may issue.
MaxCalls == 4
\* TCP sockets Deno.connect may open in one behaviour.
MaxSockets == 3
\* Largest column count a result-set header announces.
MaxFields == 2
\* Largest number of row packets one execute() is fed before the EOF.
MaxRows == 2

\* ------------------------------------------------------------ domain sets
\* Asynchronous call chains of the caller.  Spec lets only the callers of
\* Sequential issue operations (one operation in flight at a time).
Tasks == {"a", "b"}
Sequential == {"a"}

Types == {"OK", "ERR", "EOF", "RESULT"}

\* ---------------------------------------------------------------- strings
\* A string is a sequence of one-character strings; Code is the UTF-16 code
\* unit JavaScript's < compares.
Code(ch) ==
  CASE ch = "+" -> 43 [] ch = "-" -> 45 [] ch = "." -> 46
    [] ch = "0" -> 48 [] ch = "1" -> 49 [] ch = "2" -> 50 [] ch = "3" -> 51
    [] ch = "4" -> 52 [] ch = "5" -> 53 [] ch = "6" -> 54 [] ch = "7" -> 55
    [] ch = "8" -> 56 [] ch = "9" -> 57 [] ch = ":" -> 58
    [] ch = "B" -> 66 [] ch = "D" -> 68 [] ch = "M" -> 77
    [] ch = "a" -> 97 [] ch = "b" -> 98 [] ch = "c" -> 99 [] ch = "i" -> 105
    [] ch = "m" -> 109 [] ch = "n" -> 110 [] ch = "o" -> 111
    [] ch = "r" -> 114 [] ch = "s" -> 115 [] ch = "t" -> 116
    [] ch = "u" -> 117 [] ch = "y" -> 121 [] ch = "~" -> 126

RECURSIVE StrLess(_, _)
\* JavaScript a < b on strings: code-unit lexicographic, a proper prefix is less.
StrLess(a, b) ==
  IF b = <<>> THEN FALSE
  ELSE IF a = <<>> THEN TRUE
  ELSE IF Code(Head(a)) # Code(Head(b)) THEN Code(Head(a)) < Code(Head(b))
  ELSE StrLess(Tail(a), Tail(b))

\* String.prototype.includes
Includes(s, sub) ==
  \E i \in 1..(Len(s) + 1) :
     /\ i + Len(sub) - 1 <= Len(s)
     /\ SubSeq(s, i, i + Len(sub) - 1) = sub

RECURSIVE SplitAcc(_, _, _)
SplitAcc(s, sep, cur) ==
  IF s = <<>> THEN <<cur>>
  ELSE IF Head(s) = sep THEN <<cur>> \o SplitAcc(Tail(s), sep, <<>>)
  ELSE SplitAcc(Tail(s), sep, Append(cur, Head(s)))

\* String.prototype.split with a one-character separator
Split(s, sep) == SplitAcc(s, sep, <<>>)

V570 == <<"5", ".", "7", ".", "0">>
MariaDB == <<"M", "a", "r", "i", "a", "D", "B">>

\* A faulty variant of lessThan57: the MariaDB exemption is left out.
lessThan57NoMariaDB(version) == StrLess(version, V570)

\* lessThan57() of a Connection whose serverVersion is version
lessThan57(version) ==
  IF ~Includes(version, MariaDB) THEN StrLess(version, V570)
  ELSE LET segments == Split(version, "-") IN
       IF Len(segments) >= 2 /\ segments[2] = MariaDB
       THEN StrLess(segments[1], V570)
       ELSE FALSE

\* Server versions the handshake may announce.
V5610 == <<"5", ".", "6", ".", "1", "0">>
V8021 == <<"8", ".", "0", ".", "2", "1">>
VMaria5 == <<"5", ".", "5", ".", "6", "4", "-">> \o MariaDB \o <<"-", "1">>
VMaria10 == <<"5", ".", "5", ".", "5", "-", "1", "0", ".", "4", "-">> \o MariaDB

\* The version strings of the doc comment of lessThan57.
VMariaTrusty == <<"5", ".", "5", ".", "6", "4", "-", "M", "a", "r", "i", "a", "D", "B", "-", "1", "~", "t", "r", "u", "s", "t", "y">>
VMariaBionic ==
  <<"5", ".", "5", ".", "5", "-", "1", "0", ".", "4", ".", "1", "0", "-", "M", "a", "r", "i", "a", "D", "B", "-", "1", ":", "1", "0", ".", "4", ".", "1", "0", "+", "m", "a", "r", "i", "a", "~", "b", "i", "o", "n", "i", "c">>

\* Server version strings lessThan57 is applied to: a version number
\* followed by a flavour suffix.
VersionNumbers ==
  { <<>>,
    <<"5">>,
    <<"5", ".", "6", ".", "1", "0">>,
    <<"5", ".", "7", ".", "0">>,
    <<"5", ".", "7">>,
    <<"5", ".", "1", "0", ".", "2">>,
    <<"5", ".", "5", ".", "6", "4">>,
    <<"5", ".", "5", ".", "5">>,
    <<"8", ".", "0", ".", "2", "1">>,
    <<"1", "0", ".", "4", ".", "1", "0">>,
    <<"4", ".", "1", ".", "2", "2">>,
    <<"5", ".", "7", ".", "0", "-", "1">> }

VersionSuffixes ==
  { <<>>,
    <<"-", "M", "a", "r", "i", "a", "D", "B">>,
    <<"-", "M", "a", "r", "i", "a", "D", "B", "-", "1", "~", "t", "r", "u", "s", "t", "y">>,
    <<"-", "1", "0", ".", "4", ".", "1", "0", "-", "M", "a", "r", "i", "a", "D", "B", "-", "1", ":", "1", "0", ".", "4", ".", "1", "0", "+", "m", "a", "r", "i", "a", "~", "b", "i", "o", "n", "i", "c">>,
    <<"M", "a", "r", "i", "a", "D", "B">>,
    <<"-", "M", "a", "r", "i", "a", "D", "B", "1">>,
    <<"-", "m", "a", "r", "i", "a">>,
    <<"-", "1", "-", "M", "a", "r", "i", "a", "D", "B">>,
    <<"-", "M", "a", "r", "i", "a", "D", "B", "-", "M", "a", "r", "i", "a", "D", "B">> }

Versions == { n \o f : n \in VersionNumbers, f \in VersionSuffixes }

\* What parseHandshake decodes from a handshake body.
Handshakes ==
  { [serverVersion |-> V5610, serverCapabilities |-> 1],
    [serverVersion |-> V8021, serverCapabilities |-> 2] }

NoHandshake == [serverVersion |-> <<>>, serverCapabilities |-> 0]

\* ----------------------------------------------------------------- state
VARIABLES
  state,          \* Connection.state
  conn,           \* Connection.conn: 0 = undefined, else index into socks
  timedOut,       \* Connection._timedOut
  serverVersion,  \* Connection.serverVersion
  capabilities,   \* Connection.capabilities
  charset,        \* config.charset is set (immutable)
  socks,          \* the sockets Deno.connect returned: [open, broken, closeCalls]
  orphans,        \* armed timers whose nextPacket has already thrown
  uncaught,       \* a timer callback threw: the process has died
  pc,             \* per caller task: where its operation is suspended
  op,             \* per task: the public operation in flight / last run
  io,             \* per task: the socket its pending I/O was issued on
  timer,          \* per task: timeoutTimer of its current nextPacket
  fieldCount,     \* per task: execute()'s fieldCount
  fields,         \* per task: execute()'s fields
  rows,           \* per task: execute()'s rows
  handshakePacket,\* per task: _connect()'s handshakePacket
  received,       \* per task: packets its operation has read so far
  done,           \* per task: how its last operation completed
  closeErr,       \* outcome of the caller's latest close()
  lastCall,       \* the latest public call: who issued it and what it was
  ncalls,         \* public calls issued so far
  announced,      \* what the handshake packet of the current socket announced
  responseLeft,   \* the server's response to the latest query is not yet read to its end
  columns         \* column count in the header of the result set being read

vars == <<state, conn, timedOut, serverVersion, capabilities, charset, socks,
          orphans, uncaught, pc, op, io, timer, fieldCount, fields, rows,
          handshakePacket, received, done, closeErr, lastCall, ncalls,
          announced, responseLeft, columns>>

NoRet == [shape |-> "none", affectedRows |-> 0, lastInsertId |-> 0,
          rows |-> <<>>, fields |-> <<>>]

NoDone == [err |-> "pending", thrown |-> "none", cause |-> "none",
           at |-> "none", msg |-> "none", fired |-> FALSE, ret |-> NoRet]

Init ==
  /\ state = "CONNECTING"
  /\ conn = 0
  /\ timedOut = FALSE
  /\ serverVersion = <<>>
  /\ capabilities = 0
  /\ charset \in BOOLEAN
  /\ socks = <<>>
  /\ orphans = 0
  /\ uncaught = FALSE
  /\ pc = [t \in Tasks |-> "idle"]
  /\ op = [t \in Tasks |-> "none"]
  /\ io = [t \in Tasks |-> 0]
  /\ timer = [t \in Tasks |-> "none"]
  /\ fieldCount = [t \in Tasks |-> 0]
  /\ fields = [t \in Tasks |-> <<>>]
  /\ rows = [t \in Tasks |-> <<>>]
  /\ handshakePacket = [t \in Tasks |-> NoHandshake]
  /\ received = [t \in Tasks |-> 0]
  /\ done = [t \in Tasks |-> [NoDone EXCEPT !.err = "none"]]
  /\ closeErr = "none"
  /\ lastCall = [by |-> "none", op |-> "none"]
  /\ ncalls = 0
  /\ announced = NoHandshake
  /\ responseLeft = FALSE
  /\ columns = 0

\* ------------------------------------------------------- the Connection
\* The part of the program state a code segment reads and writes, threaded
\* through the segment's statements; threw records that close() raised.
World ==
  [state |-> state, conn |-> conn, socks |-> socks,
   serverVersion |-> serverVersion, capabilities |-> capabilities,
   announced |-> announced, responseLeft |-> responseLeft,
   columns |-> columns, threw |-> FALSE]

\* Deno.Conn.close(): closing a resource that is already closed raises
\* BadResource; every invocation is counted on the socket.
connClose(w) ==
  IF w.socks[w.conn].open
  THEN [w EXCEPT !.socks[w.conn].open = FALSE,
                 !.socks[w.conn].closeCalls = @ + 1]
  ELSE [w EXCEPT !.socks[w.conn].closeCalls = @ + 1, !.threw = TRUE]

\* Connection.close(): state = CLOSING; conn && conn.close(); state = CLOSED.
\* When conn.close() raises, the last assignment is not reached.
close(w) ==
  LET w1 == [w EXCEPT !.state = "CLOSING", !.threw = FALSE]
      w2 == IF w1.conn # 0 THEN connClose(w1) ELSE w1
  IN IF w2.threw THEN w2 ELSE [w2 EXCEPT !.state = "CLOSED"]

\* A faulty variant of connectCatch: the handler rethrows without closing.
connectCatchNoClose(x) == x

\* catch (error) { if (state != CLOSED) close(); throw error } of _connect:
\* the error that leaves the handler (BadResource when close() raised).
connectCatch(x) ==
  IF x.w.state # "CLOSED"
  THEN LET w2 == close(x.w)
       IN IF w2.threw THEN [x EXCEPT !.w = w2, !.err = "BadResource"]
                      ELSE [x EXCEPT !.w = w2]
  ELSE x

\* catch (error) { if (state != CLOSED) close(); throw error } around the
\* query send of execute.
sendCatch(x) ==
  IF x.w.state # "CLOSED"
  THEN LET w2 == close(x.w)
       IN IF w2.threw THEN [x EXCEPT !.w = w2, !.err = "BadResource"]
                      ELSE [x EXCEPT !.w = w2]
  ELSE x

\* A faulty variant of executeGuard: every state but CONNECTED gets the same
\* message.
executeGuardOneMessage(st) ==
  IF st # "CONNECTED" THEN "MustBeConnectedFirst" ELSE "none"

\* The error execute() raises on entry, "none" when state is CONNECTED.
executeGuard(st) ==
  IF st # "CONNECTED"
  THEN IF st = "CLOSED" THEN "ConnectionClosed" ELSE "MustBeConnectedFirst"
  ELSE "none"

\* What query() returns for execute()'s result: the rows when present.
queryResult(result) ==
  IF result.shape = "read" THEN [result EXCEPT !.shape = "rows", !.fields = <<>>]
  ELSE result

\* ------------------------------------------------------- the environment
\* Outcome of an awaited socket read on socket s: a packet, end of stream
\* (the peer half-closed), an I/O error, or, when the socket has been closed
\* locally, the rejection of the pending read.  An I/O error or the end of
\* the stream is final: every later read or write on the socket fails.
\* A packet's body is identified by its place in the sequence of packets the
\* operation has received.

\* The packet of classification type, read at the await at, is the last one
\* of the server's response to a query: an ERR anywhere, an OK as the first
\* packet, the EOF that follows the rows.
EndsResponse(at, type) ==
  \/ at \in {"first", "fields", "eof57", "rows"} /\ type = "ERR"
  \/ at = "first" /\ type = "OK"
  \/ at = "rows" /\ type = "EOF"

Packets(t, ns, n2s, hss) ==
  { [p EXCEPT !.last = EndsResponse(pc[t], p.type)] :
      p \in [kind : {"pkt"}, type : Types, bad : BOOLEAN, n : ns, n2 : n2s,
             body : {received[t] + 1}, hs : hss, last : {FALSE}] }

NoPacket(k) ==
  [kind |-> k, type |-> "OK", bad |-> FALSE, n |-> 0, n2 |-> 0, body |-> 0,
   hs |-> NoHandshake, last |-> FALSE]

ReadOutcomes(s, pkts) ==
  IF ~socks[s].open THEN {NoPacket("aborted")}
  ELSE IF socks[s].broken THEN {NoPacket("ioerr")}
  ELSE pkts \cup {NoPacket("eof"), NoPacket("ioerr")}

\* Outcome of an awaited socket write on socket s.
WriteOutcomes(s) ==
  IF ~socks[s].open THEN {"aborted"}
  ELSE IF socks[s].broken THEN {"ioerr"}
  ELSE {"ok", "ioerr"}

\* The socket after an I/O on it completed with outcome kind.
afterIo(w, s, kind) ==
  IF kind \in {"ioerr", "eof"} THEN [w EXCEPT !.socks[s].broken = TRUE] ELSE w

\* The server's response once packet in has been taken from the socket.
afterPacket(w, in) ==
  IF in.last THEN [w EXCEPT !.responseLeft = FALSE] ELSE w

IoError(kind) == IF kind = "ioerr" THEN "IOError" ELSE "Interrupted"
IoCause(kind) == IF kind = "ioerr" THEN "io" ELSE "aborted"

\* ------------------------------------------------------------ nextPacket
\* nextPacket from the completion of the awaited parse on: the catch of a
\* failed read, clearTimeout, the half-close check and the ERR check.
\* cleared says whether clearTimeout(timeoutTimer) ran.
nextPacketDone(s, in) ==
  LET w == afterPacket(afterIo(World, s, in.kind), in) IN
  IF in.kind \in {"ioerr", "aborted"} THEN
    IF timedOut
    THEN [w |-> w, err |-> "ResponseTimeoutError", cleared |-> FALSE,
          cause |-> IoCause(in.kind), msg |-> "none"]
    ELSE LET w2 == close(w)
         IN [w |-> w2, err |-> IF w2.threw THEN "BadResource" ELSE IoError(in.kind),
             cleared |-> TRUE, cause |-> IoCause(in.kind), msg |-> "none"]
  ELSE IF in.kind = "eof" THEN
    LET w2 == close(w)
    IN [w |-> w2, err |-> IF w2.threw THEN "BadResource" ELSE "ReadError",
        cleared |-> TRUE, cause |-> "peerClose", msg |-> "none"]
  ELSE IF in.type = "ERR" THEN
    IF in.bad
    THEN [w |-> w, err |-> "DecodeError", cleared |-> TRUE,
          cause |-> "decode", msg |-> "none"]
    ELSE [w |-> w, err |-> "ServerError", cleared |-> TRUE,
          cause |-> "serverErr", msg |-> in.body]
  ELSE [w |-> w, err |-> "none", cleared |-> TRUE, cause |-> "none",
        msg |-> "none"]

\* Armed timers left behind by task t's nextPacket when it did not clear its own.
orphansAfter(t, cleared) ==
  IF ~cleared /\ timer[t] = "armed" THEN orphans + 1 ELSE orphans

\* ------------------------------------------------- committing a segment
\* The local variables of a suspended operation.
NoLocals ==
  [fieldCount |-> 0, fields |-> <<>>, rows |-> <<>>,
   handshakePacket |-> NoHandshake]

\* The awaits of a packet read.
ReadPcs == {"hsRead", "authRead", "first", "fields", "eof57", "rows"}

\* The segment ends by suspending task t at the await of npc.
Suspend(t, w, npc, nio, tmr, orph, loc) ==
  /\ state' = w.state
  /\ conn' = w.conn
  /\ socks' = w.socks
  /\ serverVersion' = w.serverVersion
  /\ capabilities' = w.capabilities
  /\ announced' = w.announced
  /\ responseLeft' = w.responseLeft
  /\ columns' = w.columns
  /\ orphans' = orph
  /\ pc' = [pc EXCEPT ![t] = npc]
  /\ io' = [io EXCEPT ![t] = nio]
  /\ timer' = [timer EXCEPT ![t] = tmr]
  /\ fieldCount' = [fieldCount EXCEPT ![t] = loc.fieldCount]
  /\ fields' = [fields EXCEPT ![t] = loc.fields]
  /\ rows' = [rows EXCEPT ![t] = loc.rows]
  /\ handshakePacket' = [handshakePacket EXCEPT ![t] = loc.handshakePacket]
  /\ received' = [received EXCEPT ![t] = IF pc[t] \in ReadPcs THEN @ + 1 ELSE @]
  /\ UNCHANGED <<timedOut, charset, uncaught, op, done, closeErr, lastCall, ncalls>>

\* The segment ends the public operation of task t: it returned (err = "ok")
\* or threw err to the caller.
Complete(t, w, orph, d) ==
  /\ state' = w.state
  /\ conn' = w.conn
  /\ socks' = w.socks
  /\ serverVersion' = w.serverVersion
  /\ capabilities' = w.capabilities
  /\ announced' = w.announced
  /\ responseLeft' = w.responseLeft
  /\ columns' = 0
  /\ orphans' = orph
  /\ pc' = [pc EXCEPT ![t] = "idle"]
  /\ io' = [io EXCEPT ![t] = 0]
  /\ timer' = [timer EXCEPT ![t] = "none"]
  /\ fieldCount' = [fieldCount EXCEPT ![t] = 0]
  /\ fields' = [fields EXCEPT ![t] = <<>>]
  /\ rows' = [rows EXCEPT ![t] = <<>>]
  /\ handshakePacket' = [handshakePacket EXCEPT ![t] = NoHandshake]
  /\ received' = [received EXCEPT ![t] = 0]
  /\ done' = [done EXCEPT ![t] = d]
  /\ UNCHANGED <<timedOut, charset, uncaught, op, closeErr, lastCall, ncalls>>

\* An error raised inside the try block of _connect, or inside execute()
\* after its send, on its way to the caller: _connect's catch applies when
\* the operation is connect().
Throw(t, w, err, cause, msg, orph) ==
  LET x0 == [w |-> w, err |-> err]
      x == IF op[t] = "connect" THEN connectCatch(x0) ELSE x0
  IN Complete(t, x.w, orph,
              [err |-> x.err, thrown |-> err, cause |-> cause, at |-> pc[t],
               msg |-> msg, fired |-> timer[t] = "fired", ret |-> NoRet])

\* The operation of task t returns result.
Return(t, w, result) ==
  Complete(t, w, orphans,
           [err |-> "ok", thrown |-> "none", cause |-> "none", at |-> pc[t],
            msg |-> "none", fired |-> FALSE,
            ret |-> IF op[t] = "query" THEN queryResult(result) ELSE result])

\* nextPacket up to its await: the conn check, then the timer is armed and
\* the read is issued on the current socket.
Read(t, w, npc, loc) ==
  IF w.conn = 0
  THEN Throw(t, w, "NotConnected", "noSocket", "none", orphans)
  ELSE Suspend(t, w, npc, w.conn, "armed", orphans, loc)

\* ------------------------------------------------------------- connect()
\* connect() -> _connect() up to the await of Deno.connect.
Connect(t) ==
  /\ ~uncaught /\ pc[t] = "idle" /\ ncalls < MaxCalls
  /\ pc' = [pc EXCEPT ![t] = "tcp"]
  /\ op' = [op EXCEPT ![t] = "connect"]
  /\ done' = [done EXCEPT ![t] = NoDone]
  /\ ncalls' = ncalls + 1
  /\ lastCall' = [by |-> t, op |-> "connect"]
  /\ UNCHANGED <<state, conn, timedOut, serverVersion, capabilities, charset,
                 socks, orphans, uncaught, io, timer, fieldCount, fields, rows,
                 handshakePacket, received, closeErr, announced, responseLeft,
                 columns>>

\* Deno.connect rejects: the error leaves _connect outside its try block.
TcpFailed(t) ==
  /\ ~uncaught /\ pc[t] = "tcp"
  /\ Complete(t, World, orphans,
              [NoDone EXCEPT !.err = "ConnectFailed", !.cause = "tcp", !.at = "tcp"])

\* Deno.connect resolves: this.conn = the new socket; the handshake read is
\* issued.
TcpConnected(t) ==
  /\ ~uncaught /\ pc[t] = "tcp" /\ Len(socks) < MaxSockets
  /\ LET w == [World EXCEPT !.socks = Append(socks, [open |-> TRUE, broken |-> FALSE, closeCalls |-> 0]),
                            !.conn = Len(socks) + 1,
                            !.announced = NoHandshake,
                            !.responseLeft = FALSE]
     IN Read(t, w, "hsRead", NoLocals)

\* The handshake read completes: parseHandshake, buildAuth, the auth send is
\* issued.
HandshakeRead(t) ==
  /\ ~uncaught /\ pc[t] = "hsRead"
  /\ \E in \in ReadOutcomes(io[t], Packets(t, {0}, {0}, Handshakes)) :
       LET r == nextPacketDone(io[t], in)
           orph == orphansAfter(t, r.cleared)
       IN IF r.err # "none" THEN Throw(t, r.w, r.err, r.cause, r.msg, orph)
          ELSE IF in.bad THEN Throw(t, r.w, "DecodeError", "decode", "none", orph)
          ELSE Suspend(t, [r.w EXCEPT !.announced = in.hs], "authSend",
                       r.w.conn, "none", orph,
                       [NoLocals EXCEPT !.handshakePacket = in.hs])

\* The auth send completes: state = CONNECTING, serverVersion and
\* capabilities are recorded, the read of the server's reply is issued.
AuthSent(t) ==
  /\ ~uncaught /\ pc[t] = "authSend"
  /\ \E out \in WriteOutcomes(io[t]) :
       IF out # "ok"
       THEN Throw(t, afterIo(World, io[t], out), IoError(out), IoCause(out),
                  "none", orphans)
       ELSE LET hs == handshakePacket[t]
                w == [World EXCEPT !.state = "CONNECTING",
                                   !.serverVersion = hs.serverVersion,
                                   !.capabilities = hs.serverCapabilities]
            IN Read(t, w, "authRead", NoLocals)

\* execute() from its entry to the await of the query send.
executeEntry(t, w) ==
  IF executeGuard(w.state) # "none"
  THEN Throw(t, w, executeGuard(w.state), "state", "none", orphans)
  ELSE Suspend(t, w, "send", w.conn, "none", orphans, NoLocals)

\* The server's reply to the auth response is read: ERR fails connect(),
\* anything else makes the connection CONNECTED; with a charset configured
\* SET NAMES is executed before connect() returns.
AuthReplyRead(t) ==
  /\ ~uncaught /\ pc[t] = "authRead"
  /\ \E in \in ReadOutcomes(io[t], Packets(t, {0}, {0}, {NoHandshake})) :
       LET r == nextPacketDone(io[t], in)
           orph == orphansAfter(t, r.cleared)
       IN IF r.err # "none" THEN Throw(t, r.w, r.err, r.cause, r.msg, orph)
          ELSE IF in.bad THEN Throw(t, r.w, "DecodeError", "decode", "none", orph)
          ELSE IF in.type = "ERR"
          THEN LET w2 == close(r.w)
               IN Throw(t, w2, IF w2.threw THEN "BadResource" ELSE "ServerError",
                        "serverErr", in.body, orph)
          ELSE LET w2 == [r.w EXCEPT !.state = "CONNECTED"]
               IN IF charset THEN executeEntry(t, w2)
                  ELSE Return(t, w2, NoRet)

\* ------------------------------------------------- execute() and query()
\* A call of execute() (o = "execute") or query() (o = "query").
Execute(t, o) ==
  /\ ~uncaught /\ pc[t] = "idle" /\ ncalls < MaxCalls
  /\ ncalls' = ncalls + 1
  /\ lastCall' = [by |-> t, op |-> o]
  /\ op' = [op EXCEPT ![t] = o]
  /\ IF executeGuard(state) # "none"
     THEN /\ done' = [done EXCEPT ![t] =
                        [NoDone EXCEPT !.err = executeGuard(state),
                                       !.cause = "state", !.at = "entry"]]
          /\ UNCHANGED <<pc, io>>
     ELSE /\ done' = [done EXCEPT ![t] = NoDone]
          /\ pc' = [pc EXCEPT ![t] = "send"]
          /\ io' = [io EXCEPT ![t] = conn]
  /\ UNCHANGED <<state, conn, timedOut, serverVersion, capabilities, charset,
                 socks, orphans, uncaught, timer, fieldCount, fields, rows,
                 handshakePacket, received, closeErr, announced, responseLeft,
                 columns>>

\* The query send completes: a failure closes the connection unless it is
\* CLOSED and is rethrown; otherwise the first response read is issued.
QuerySent(t) ==
  /\ ~uncaught /\ pc[t] = "send"
  /\ \E out \in WriteOutcomes(io[t]) :
       IF out # "ok"
       THEN LET x == sendCatch([w |-> afterIo(World, io[t], out),
                                err |-> IoError(out)])
            IN Throw(t, x.w, x.err, IoCause(out), "none", orphans)
       ELSE Read(t, [World EXCEPT !.responseLeft = TRUE], "first", NoLocals)

\* A faulty variant of afterFields: the row loop starts right after the
\* field list whatever the server version.
afterFieldsNoLegacyEof(t, w, fs) ==
  Read(t, w, "rows", [NoLocals EXCEPT !.fields = fs])

\* After the field loop: one extra read on a server older than 5.7, then the
\* row loop.
afterFields(t, w, fs) ==
  IF lessThan57(w.serverVersion)
  THEN Read(t, w, "eof57", [NoLocals EXCEPT !.fields = fs])
  ELSE Read(t, w, "rows", [NoLocals EXCEPT !.fields = fs])

\* A faulty variant of fieldLoop: the counter is decremented before it is
\* tested, so the last field packet is not read.
fieldLoopPreDecrement(t, w, n, fs) ==
  IF n > 1
  THEN Read(t, w, "fields", [NoLocals EXCEPT !.fieldCount = n - 1, !.fields = fs])
  ELSE afterFields(t, w, fs)

\* while (fieldCount--) { nextPacket ... }: the loop test with n left.
fieldLoop(t, w, n, fs) ==
  IF n # 0
  THEN Read(t, w, "fields", [NoLocals EXCEPT !.fieldCount = n - 1, !.fields = fs])
  ELSE afterFields(t, w, fs)

\* The first response packet is read.
FirstRead(t) ==
  /\ ~uncaught /\ pc[t] = "first"
  /\ \E in \in ReadOutcomes(io[t], Packets(t, 0..MaxFields, 0..1, {NoHandshake})) :
       LET r == nextPacketDone(io[t], in)
           orph == orphansAfter(t, r.cleared)
       IN IF r.err # "none" THEN Throw(t, r.w, r.err, r.cause, r.msg, orph)
          ELSE IF in.bad THEN Throw(t, r.w, "DecodeError", "decode", "none", orph)
          ELSE IF in.type = "OK"
          THEN Return(t, r.w, [NoRet EXCEPT !.shape = "write", !.affectedRows = in.n,
                                            !.lastInsertId = in.n2])
          ELSE fieldLoop(t, [r.w EXCEPT !.columns = in.n], in.n, <<>>)

\* A field packet is read.
FieldRead(t) ==
  /\ ~uncaught /\ pc[t] = "fields"
  /\ \E in \in ReadOutcomes(io[t], Packets(t, {0}, {0}, {NoHandshake})) :
       LET r == nextPacketDone(io[t], in)
           orph == orphansAfter(t, r.cleared)
       IN IF r.err # "none" THEN Throw(t, r.w, r.err, r.cause, r.msg, orph)
          ELSE IF in.bad THEN Throw(t, r.w, "DecodeError", "decode", "none", orph)
          ELSE fieldLoop(t, r.w, fieldCount[t], Append(fields[t], in.body))

\* The packet after the field list of a pre-5.7 server is read and dropped.
Eof57Read(t) ==
  /\ ~uncaught /\ pc[t] = "eof57"
  /\ \E in \in ReadOutcomes(io[t], Packets(t, {0}, {0}, {NoHandshake})) :
       LET r == nextPacketDone(io[t], in)
           orph == orphansAfter(t, r.cleared)
       IN IF r.err # "none" THEN Throw(t, r.w, r.err, r.cause, r.msg, orph)
          ELSE Read(t, r.w, "rows", [NoLocals EXCEPT !.fields = fields[t]])

\* A packet of the row loop is read: EOF ends the result, anything else is a
\* row.
RowRead(t) ==
  /\ ~uncaught /\ pc[t] = "rows"
  /\ \E in \in ReadOutcomes(io[t], Packets(t, {0}, {0}, {NoHandshake})) :
       LET r == nextPacketDone(io[t], in)
           orph == orphansAfter(t, r.cleared)
       IN IF r.err # "none" THEN Throw(t, r.w, r.err, r.cause, r.msg, orph)
          ELSE IF in.type = "EOF"
          THEN Return(t, r.w, [NoRet EXCEPT !.shape = "read", !.rows = rows[t],
                                            !.fields = fields[t]])
          ELSE IF in.bad THEN Throw(t, r.w, "DecodeError", "decode", "none", orph)
          ELSE /\ Len(rows[t]) < MaxRows
               /\ Read(t, r.w, "rows",
                       [NoLocals EXCEPT !.fields = fields[t],
                                        !.rows = Append(rows[t], in.body)])

\* ---------------------------------------------------- close() and timers
\* The caller calls close().
Close ==
  /\ ~uncaught /\ ncalls < MaxCalls
  /\ ncalls' = ncalls + 1
  /\ lastCall' = [by |-> "caller", op |-> "close"]
  /\ LET w == close(World)
     IN /\ state' = w.state
        /\ socks' = w.socks
        /\ closeErr' = IF w.threw THEN "BadResource" ELSE "ok"
  /\ UNCHANGED <<conn, timedOut, serverVersion, capabilities, charset, orphans,
                 uncaught, pc, op, io, timer, fieldCount, fields, rows,
                 handshakePacket, received, done, announced, responseLeft,
                 columns>>

\* _timeoutCallback: _timedOut = true; close().  An error close() raises
\* inside the timer callback is uncaught: Deno ends the process, and no
\* action is enabled any more.
timeoutCallback ==
  LET w == close(World)
  IN /\ timedOut' = TRUE
     /\ state' = w.state
     /\ socks' = w.socks
     /\ uncaught' = w.threw

\* The timer of task t's pending read fires.
TimerFires(t) ==
  /\ ~uncaught /\ timer[t] = "armed"
  /\ timeoutCallback
  /\ timer' = [timer EXCEPT ![t] = "fired"]
  /\ UNCHANGED <<conn, serverVersion, capabilities, charset, orphans, pc, op,
                 io, fieldCount, fields, rows, handshakePacket, received, done,
                 closeErr, lastCall, ncalls, announced, responseLeft, columns>>

\* A timer that its nextPacket left armed fires.
OrphanFires ==
  /\ ~uncaught /\ orphans > 0
  /\ timeoutCallback
  /\ orphans' = orphans - 1
  /\ UNCHANGED <<conn, serverVersion, capabilities, charset, pc, op, io, timer,
                 fieldCount, fields, rows, handshakePacket, received, done,
                 closeErr, lastCall, ncalls, announced, responseLeft, columns>>

\* ------------------------------------------------------- specifications
TaskStep(t) ==
  \/ Connect(t)
  \/ TcpFailed(t)
  \/ TcpConnected(t)
  \/ HandshakeRead(t)
  \/ AuthSent(t)
  \/ AuthReplyRead(t)
  \/ Execute(t, "execute")
  \/ Execute(t, "query")
  \/ QuerySent(t)
  \/ FirstRead(t)
  \/ FieldRead(t)
  \/ Eof57Read(t)
  \/ RowRead(t)
  \/ TimerFires(t)

\* One operation in flight at a time, close() and the timers at any time.
Next ==
  \/ \E t \in Sequential : TaskStep(t)
  \/ Close
  \/ OrphanFires

Spec == Init /\ [][Next]_vars

\* A Connection on which connect() has returned, hs being what the handshake
\* announced: the states execute() is accepted in.
Connected(hs) ==
  /\ state = "CONNECTED"
  /\ conn = 1
  /\ timedOut = FALSE
  /\ serverVersion = hs.serverVersion
  /\ capabilities = hs.serverCapabilities
  /\ charset = FALSE
  /\ socks = <<[open |-> TRUE, broken |-> FALSE, closeCalls |-> 0]>>
  /\ orphans = 0
  /\ uncaught = FALSE
  /\ pc = [t \in Tasks |-> "idle"]
  /\ op = [t \in Tasks |-> IF t \in Sequential THEN "connect" ELSE "none"]
  /\ io = [t \in Tasks |-> 0]
  /\ timer = [t \in Tasks |-> "none"]
  /\ fieldCount = [t \in Tasks |-> 0]
  /\ fields = [t \in Tasks |-> <<>>]
  /\ rows = [t \in Tasks |-> <<>>]
  /\ handshakePacket = [t \in Tasks |-> NoHandshake]
  /\ received = [t \in Tasks |-> 0]
  /\ done = [t \in Tasks |->
               IF t \in Sequential
               THEN [NoDone EXCEPT !.err = "ok", !.at = "authRead"]
               ELSE [NoDone EXCEPT !.err = "none"]]
  /\ closeErr = "none"
  /\ lastCall = [by |-> CHOOSE t \in Sequential : TRUE, op |-> "connect"]
  /\ ncalls = 1
  /\ announced = hs
  /\ responseLeft = FALSE
  /\ columns = 0

\* The handshake announced any of the version strings of Versions.
VersionInit ==
  \E v \in Versions : Connected([serverVersion |-> v, serverCapabilities |-> 1])

\* execute() calls, one after the other, on the connected Connection.
VersionNext ==
  \E t \in Sequential :
    \/ Execute(t, "execute")
    \/ QuerySent(t)
    \/ FirstRead(t)
    \/ FieldRead(t)
    \/ Eof57Read(t)
    \/ RowRead(t)

VersionSpec == VersionInit /\ [][VersionNext]_vars

\* Callers that do not await one execute()/query() before they call the
\* next, on a connected Connection: the calls of different tasks interleave
\* at their awaits.
ConcurrentInit == \E hs \in Handshakes : Connected(hs)

ConcurrentNext ==
  \E t \in Tasks :
    \/ Execute(t, "execute")
    \/ Execute(t, "query")
    \/ QuerySent(t)
    \/ FirstRead(t)
    \/ FieldRead(t)
    \/ Eof57Read(t)
    \/ RowRead(t)
    \/ TimerFires(t)

ConcurrentSpec == ConcurrentInit /\ [][ConcurrentNext]_vars

\* ---------------------------------------------------------------- claims
\* A step in which a public operation of task t completes: an operation in
\* flight returns or throws, or execute()/query() is rejected on entry.
Completes(t) ==
  \/ pc[t] # "idle" /\ pc'[t] = "idle"
  \/ ncalls' = ncalls + 1 /\ lastCall'.by = t /\ pc'[t] = "idle"

\* A step that is a call of close() by the caller.
Closes == ncalls' = ncalls + 1 /\ lastCall'.op = "close"

\* C1: CLOSED is terminal: once state is CLOSED no later step (connect,
\* execute, query, close, a timer firing, a continuation) changes it.
C1_ClosedIsTerminal == [][state = "CLOSED" => state' = "CLOSED"]_vars

\* C2: close() never fails: every call of close(), in any state and however
\* often, returns without raising and leaves state = CLOSED.
C2_CloseNeverFails ==
  [][Closes => (closeErr' = "ok" /\ state' = "CLOSED")]_vars

\* C3: execute()/query() called while state is not CONNECTED fails with
\* 'Connection is closed' when CLOSED and 'Must be connected first'
\* otherwise, and has no effect: no I/O is issued, no timer is armed, the
\* connection and its sockets are unchanged.
C3_RejectedWhenNotConnected ==
  [][\A t \in Tasks :
       (/\ ncalls' = ncalls + 1
        /\ lastCall'.by = t
        /\ lastCall'.op \in {"execute", "query"}
        /\ state # "CONNECTED")
       => /\ done'[t].err = (IF state = "CLOSED" THEN "ConnectionClosed"
                             ELSE "MustBeConnectedFirst")
          /\ pc'[t] = "idle"
          /\ UNCHANGED <<state, conn, socks, timedOut, serverVersion,
                         capabilities, io, timer, orphans, handshakePacket, received>>]_vars

\* C3 witness: query() has been rejected on a connection that was closed
\* after its socket had been opened.
C3_Witness ==
  \E t \in Tasks :
    /\ lastCall = [by |-> t, op |-> "query"]
    /\ done[t].err = "ConnectionClosed"
    /\ state = "CLOSED" /\ conn # 0

\* C4: when a public operation completes (returns or throws), state is
\* CLOSED or CONNECTED, never CONNECTING or CLOSING.  Stated for connect(),
\* close() and the execute()/query() calls that passed the entry check (a
\* call rejected on entry changes nothing: C3).
C4_SettledAfterOperation ==
  [][((\E t \in Tasks : pc[t] # "idle" /\ pc'[t] = "idle") \/ Closes)
       => state' \in {"CLOSED", "CONNECTED"}]_vars

\* C5: closes are idempotent: the socket's close is invoked at most once per
\* opened socket and no operation fails with the error of a second close.
C5_CloseOncePerSocket ==
  /\ \A s \in DOMAIN socks : socks[s].closeCalls <= 1
  /\ \A t \in Tasks : done[t].err # "BadResource"

\* C6: when the timer of a pending read fired, the operation fails with
\* ResponseTimeoutError and the connection ends CLOSED with its socket closed.
C6_TimeoutFailsAndCloses ==
  [][\A t \in Tasks :
       (Completes(t) /\ done'[t].fired)
       => /\ done'[t].err = "ResponseTimeoutError"
          /\ state' = "CLOSED"
          /\ ~socks'[io[t]].open]_vars

\* C7: when a packet read or the query send fails with an I/O error, the
\* connection is CLOSED and the socket closed at the moment the error reaches
\* the caller.
C7_IoFailureCloses ==
  [][\A t \in Tasks :
       (/\ Completes(t)
        /\ pc[t] \in ReadPcs \cup {"send"}
        /\ done'[t].cause = "io")
       => (state' = "CLOSED" /\ ~socks'[io[t]].open)]_vars

\* C8: a server ERR read as the reply to the auth response makes connect()
\* fail with the server's message, the state going from CONNECTING to CLOSED
\* (never CONNECTED) and the socket being closed exactly once.
C8_ErrDuringConnect ==
  [][\A t \in Tasks :
       (/\ Completes(t)
        /\ pc[t] = "authRead"
        /\ done'[t].cause = "serverErr")
       => /\ done'[t].err = "ServerError"
          /\ done'[t].msg = received[t] + 1
          /\ state = "CONNECTING"
          /\ state' = "CLOSED"
          /\ ~socks'[io[t]].open
          /\ socks'[io[t]].closeCalls = 1]_vars

\* C8 witness: connect() has failed on the server's ERR reply to the auth
\* response.
C8_Witness ==
  \E t \in Tasks :
    /\ pc[t] = "idle" /\ op[t] = "connect"
    /\ done[t].at = "authRead" /\ done[t].cause = "serverErr"
    /\ done[t].err = "ServerError"
    /\ state = "CLOSED"

\* C9: a connect() that fails after its socket was opened and before
\* CONNECTED has closed that socket, exactly once, when it fails.
C9_ConnectFailureClosesOnce ==
  [][\A t \in Tasks :
       (/\ Completes(t)
        /\ op[t] = "connect"
        /\ pc[t] \in {"hsRead", "authSend", "authRead"}
        /\ done'[t].err # "ok")
       => (~socks'[io[t]].open /\ socks'[io[t]].closeCalls = 1)]_vars

\* C10: a server ERR during execute()/query() fails the call with the
\* server's message and does not close: state stays CONNECTED, the socket
\* stays open, no timer is armed, the next execute() is accepted.
C10_ErrDuringExecuteKeepsOpen ==
  [][\A t \in Tasks :
       (/\ Completes(t)
        /\ op[t] \in {"execute", "query"}
        /\ done'[t].cause = "serverErr")
       => /\ done'[t].err = "ServerError"
          /\ state' = "CONNECTED"
          /\ socks'[conn'].open
          /\ timer'[t] = "none" /\ orphans' = 0
          /\ executeGuard(state') = "none"]_vars

\* The packets numbered a..b in arrival order (none when b < a).
Arrivals(a, b) == [i \in 1..(b - a + 1) |-> a + i - 1]

\* A step in which execute() called by task t returns its result.
ExecuteReturns(t) ==
  /\ pc[t] # "idle" /\ pc'[t] = "idle"
  /\ op[t] = "execute"
  /\ done'[t].err = "ok"

\* The result of execute() has the write shape: affectedRows and
\* lastInsertId, rows and fields absent.
WriteShape(ret) == ret.shape = "write" /\ ret.rows = <<>> /\ ret.fields = <<>>

\* The result of execute() has the read shape: rows and fields, affectedRows
\* and lastInsertId absent.
ReadShape(ret) ==
  ret.shape = "read" /\ ret.affectedRows = 0 /\ ret.lastInsertId = 0

\* C11 as stated: execute() returns one of two shapes: after an OK first
\* packet it has read that packet only and returns the write shape;
\* otherwise fields are the N packets after the first, in arrival order (N
\* the column count of the first packet), rows are all the packets after
\* the fields up to the EOF that ends the call, and it returns the read shape.
C11_ResponseShape ==
  [][\A t \in Tasks :
       ExecuteReturns(t) =>
         LET ret == done'[t].ret
             total == received[t] + 1
         IN \/ /\ pc[t] = "first"
               /\ WriteShape(ret)
               /\ total = 1
            \/ /\ pc[t] = "rows"
               /\ ReadShape(ret)
               /\ ret.fields = Arrivals(2, columns + 1)
               /\ ret.rows = Arrivals(columns + 2, total - 1)]_vars

\* Packets execute() drops between the field list and the rows.
LegacyEof == IF lessThan57(serverVersion) THEN 1 ELSE 0

\* C11 amended: as C11, the rows being all the packets after the field
\* list and after the one packet dropped when lessThan57() is true, up to
\* the EOF that ends the call.
C11_ResponseShapeAmended ==
  [][\A t \in Tasks :
       ExecuteReturns(t) =>
         LET ret == done'[t].ret
             total == received[t] + 1
         IN \/ /\ pc[t] = "first"
               /\ WriteShape(ret)
               /\ total = 1
            \/ /\ pc[t] = "rows"
               /\ ReadShape(ret)
               /\ ret.fields = Arrivals(2, columns + 1)
               /\ ret.rows = Arrivals(columns + 2 + LegacyEof, total - 1)]_vars

\* C11 witness: execute() has returned a result set of two columns and two
\* rows read from a server older than 5.7.
C11_Witness ==
  \E t \in Tasks :
    /\ pc[t] = "idle" /\ op[t] = "execute" /\ done[t].err = "ok"
    /\ done[t].ret.shape = "read"
    /\ Len(done[t].ret.fields) = 2 /\ Len(done[t].ret.rows) = 2
    /\ lessThan57(serverVersion)

\* a < b as text: at the first place where they differ a has the smaller
\* character, or a ends there.
LexLess(a, b) ==
  \E k \in 1..Len(b) :
    /\ \A i \in 1..(k - 1) : i <= Len(a) /\ a[i] = b[i]
    /\ (k > Len(a) \/ Code(a[k]) < Code(b[k]))

\* v contains sub.
Contains(v, sub) ==
  \E i \in 1..Len(v) : \E j \in i..Len(v) : SubSeq(v, i, j) = sub

\* The places of the '-' characters of v.
Dashes(v) == {i \in 1..Len(v) : v[i] = "-"}

\* The place of the k-th '-' of v; 0 for k = 0, past the end when v has
\* fewer.
DashAt(v, k) ==
  IF k = 0 THEN 0
  ELSE IF k > Cardinality(Dashes(v)) THEN Len(v) + 1
  ELSE CHOOSE i \in Dashes(v) : Cardinality({j \in Dashes(v) : j < i}) = k - 1

\* The k-th '-'-separated segment of v, counted from 0.
Segment(v, k) == SubSeq(v, DashAt(v, k) + 1, DashAt(v, k + 1) - 1)

\* The stated version policy.
VersionPolicy(v) ==
  IF ~Contains(v, MariaDB) THEN LexLess(v, V570)
  ELSE IF Cardinality(Dashes(v)) >= 1 /\ Segment(v, 1) = MariaDB
       THEN LexLess(Segment(v, 0), V570)
       ELSE FALSE

\* C12: lessThan57 follows the version policy for every version string:
\* without 'MariaDB' it is the text comparison version < '5.7.0' (so
\* '5.10.2' gives true); with 'MariaDB' as the second '-'-separated segment
\* it is that comparison of the first segment; otherwise false.  '5.6.10'
\* gives true, '5.7.0' false, '5.5.64-MariaDB-1~trusty' true,
\* '5.5.5-10.4.10-MariaDB-1:10.4.10+maria~bionic' false.  And execute()
\* consumes the packet after the field list exactly when the policy says so.
C12_VersionPolicy ==
  [][/\ lessThan57(serverVersion) = VersionPolicy(serverVersion)
     /\ lessThan57(V5610)
     /\ ~lessThan57(V570)
     /\ lessThan57(<<"5", ".", "1", "0", ".", "2">>)
     /\ lessThan57(VMariaTrusty)
     /\ ~lessThan57(VMariaBionic)
     /\ \A t \in Tasks :
          (pc[t] \in {"first", "fields"} /\ pc'[t] \in {"eof57", "rows"})
          => ((pc'[t] = "eof57") = VersionPolicy(serverVersion))]_vars

\* C12 witness: on a server announcing '5.5.64-MariaDB-1~trusty' execute()
\* has taken lessThan57() as true and awaits the packet after the field list.
C12_Witness ==
  \E t \in Tasks :
    /\ serverVersion = VMariaTrusty
    /\ op[t] = "execute" /\ pc[t] = "eof57"

\* C13: whenever nextPacket has returned or thrown, no timer it armed is
\* still pending: a timer is armed only while its read is in flight, and at
\* most one timer is armed per connection.
C13_TimerDisarmedAfterRead ==
  /\ orphans = 0
  /\ \A t \in Tasks : timer[t] = "armed" => pc[t] \in ReadPcs
  /\ Cardinality({t \in Tasks : timer[t] = "armed"}) <= 1

\* C14: a failed packet read is reported by nextPacket as
\* ResponseTimeoutError if and only if the timer armed for that very read
\* fired; a read aborted by close() or failed by an I/O error is not.
C14_TimeoutErrorIffTimerFired ==
  [][\A t \in Tasks :
       (/\ Completes(t)
        /\ pc[t] \in ReadPcs
        /\ done'[t].cause \in {"io", "aborted", "peerClose"})
       => (done'[t].thrown = "ResponseTimeoutError" <=> done'[t].fired)]_vars

\* C15: state becomes CONNECTED only when connect() reads its second packet
\* (the reply to the auth response, the handshake having been read from the
\* socket it opened) and that packet is not an ERR; and whenever state is
\* CONNECTED, serverVersion and capabilities are those announced by the
\* handshake packet of the current socket.
C15_ConnectedAfterHandshake ==
  [][/\ (state # "CONNECTED" /\ state' = "CONNECTED")
        => \E t \in Tasks :
             /\ op[t] = "connect" /\ pc[t] = "authRead"
             /\ received[t] = 1 /\ io[t] = conn
             /\ announced # NoHandshake
     /\ state' = "CONNECTED"
        => /\ serverVersion' = announced'.serverVersion
           /\ capabilities' = announced'.serverCapabilities]_vars

\* Packets the operation of task t had read before its execute() began:
\* the two packets of the handshake when connect() executes SET NAMES.
ReadBeforeExecute(t) == IF op[t] = "connect" THEN 2 ELSE 0

\* C16: on a result-set response execute() consumes exactly one extra packet
\* between the last field packet and the first row packet when lessThan57()
\* is true and none when it is false; the extra packet is dropped: it is
\* not decoded as a row and does not end the rows, whatever its
\* classification; the packets read after it are the rows, in order.
C16_LegacyEofConsumed ==
  [][\A t \in Tasks :
       /\ (pc[t] \in {"first", "fields"} /\ pc'[t] \in {"eof57", "rows"})
          => (pc'[t] = "eof57" <=> lessThan57(serverVersion))
       /\ (pc[t] = "eof57" /\ pc'[t] # "eof57")
          => /\ pc'[t] = "idle" => done'[t].err # "ok"
             /\ pc'[t] # "idle"
                => /\ pc'[t] = "rows"
                   /\ received'[t] = received[t] + 1
                   /\ fields'[t] = fields[t]
       /\ (pc[t] # "rows" /\ pc'[t] = "rows")
          => /\ rows'[t] = <<>>
             /\ received'[t] = ReadBeforeExecute(t) + columns' + 1 + LegacyEof
       /\ (pc[t] = "rows" /\ pc'[t] = "rows" /\ received'[t] # received[t])
          => /\ received'[t] = received[t] + 1
             /\ rows'[t] = Append(rows[t], received'[t])]_vars

\* C16 witness: on a server older than 5.7 execute() has read the header, two
\* field packets and the extra packet, and awaits the first row.
C16_Witness ==
  \E t \in Tasks :
    /\ pc[t] = "rows" /\ rows[t] = <<>>
    /\ lessThan57(serverVersion)
    /\ columns = 2 /\ received[t] = 4

\* The awaits of the execute() that connect() runs for SET NAMES.
SetNamesPcs == {"send", "first", "fields", "eof57", "rows"}

\* C17: with a charset configured connect() executes one SET NAMES query
\* after state became CONNECTED and before it returns; when that query fails
\* by a server ERR, an I/O error, a timeout or the peer closing, connect()
\* fails with that error and leaves the connection CLOSED with its socket
\* closed exactly once.  Without a charset connect() sends no query.
C17_SetNamesInsideConnect ==
  [][\A t \in Tasks :
       (Completes(t) /\ op[t] = "connect")
       => /\ done'[t].err = "ok"
             => pc[t] \in (IF charset THEN {"first", "rows"} ELSE {"authRead"})
          /\ ~charset => pc[t] \notin SetNamesPcs
          /\ (/\ pc[t] \in SetNamesPcs
              /\ done'[t].cause \in {"serverErr", "io", "peerClose"} \/ done'[t].fired)
             => /\ done'[t].err =
                     (IF done'[t].fired THEN "ResponseTimeoutError"
                      ELSE IF done'[t].cause = "serverErr" THEN "ServerError"
                      ELSE IF done'[t].cause = "peerClose" THEN "ReadError"
                      ELSE "IOError")
                /\ state' = "CLOSED"
                /\ ~socks'[io[t]].open
                /\ socks'[io[t]].closeCalls = 1]_vars

\* The tasks whose execute()/query() has written its query, or is writing
\* it, and has not completed.
InFlight ==
  {t \in Tasks : op[t] \in {"execute", "query"} /\ pc[t] \in SetNamesPcs}

\* C18: a connection carries at most one request in flight: no call writes
\* its query or reads a packet before the call before it has completed.
C18_OneRequestInFlight == Cardinality(InFlight) <= 1

\* C19: no socket is left open behind a CLOSED state: whenever state is
\* CLOSED the socket most recently opened by the Connection is closed.
C19_NoOpenSocketWhenClosed ==
  state = "CLOSED" =>
    (IF socks = <<>> THEN TRUE ELSE ~socks[Len(socks)].open)

\* C20: when execute()/query() completes (returns or throws) and leaves
\* state CONNECTED, the server's response to it has been read to its end, so
\* the next execute() starts reading at its own response.
C20_ResponseConsumed ==
  [][\A t \in Tasks :
       (/\ pc[t] # "idle" /\ pc'[t] = "idle"
        /\ op[t] \in {"execute", "query"}
        /\ state' = "CONNECTED")
       => ~responseLeft']_vars

====
